---- MODULE Spec2Model ----
(***************************************************************************)
(* Model of src/app.py: the admin session gate, the upload / delete /      *)
(* toggle-featured handlers over the videos table and the upload folder,   *)
(* and the listing queries.  Strings that the code inspects character by   *)
(* character (file names) are sequences of one-character strings.          *)
(***************************************************************************)
EXTENDS Integers, Sequences, FiniteSets, TLC

(* ------------------------------ bounds -------------------------------- *)
\* rows ever inserted (ids 1..MaxVideos)
MaxVideos == 2
\* last second of the wall clock
MaxClock == 1

(* --------------------------- request inputs --------------------------- *)
Sessions == {"s1", "s2"}
Usernames == {"admin", "guest"}
Passwords == {"admin123", "letmein"}
Titles == {"", "Intro"}
Descriptions == {""}
VideoIds == 1..MaxVideos

\* original file names offered by the upload boundary: empty, two that
\* differ only by a leading "../", and four that must be refused
FileNames ==
  { <<>>,
    <<"c", ".", "M", "p", "4">>,
    <<".", ".", "/", "c", ".", "M", "p", "4">>,
    <<"m", "p", "4">>,
    <<"c", ".", "e", "x", "e">>,
    <<"c", ".", "m", "p", "4", ".", "t", "x", "t">>,
    <<"c", ".", "m", "p", "4", ".">> }

(* ------------------------- character helpers -------------------------- *)
Upper == <<"A","B","C","D","E","F","G","H","I","J","K","L","M",
           "N","O","P","Q","R","S","T","U","V","W","X","Y","Z">>
Lower == <<"a","b","c","d","e","f","g","h","i","j","k","l","m",
           "n","o","p","q","r","s","t","u","v","w","x","y","z">>
Digits == <<"0","1","2","3","4","5","6","7","8","9">>
Range(s) == {s[i] : i \in DOMAIN s}

\* str.lower() on one character
LowerChar(ch) ==
  IF ch \in Range(Upper)
    THEN Lower[CHOOSE i \in DOMAIN Upper : Upper[i] = ch]
    ELSE ch

\* str.lower()
str_lower(s) == [i \in DOMAIN s |-> LowerChar(s[i])]

\* filename.rsplit('.', 1)[1]: the text after the last '.', scanning from
\* the right; called only when '.' occurs in s
RECURSIVE rsplit_ext(_)
rsplit_ext(s) ==
  IF s = <<>> \/ s[Len(s)] = "." THEN <<>>
  ELSE rsplit_ext(SubSeq(s, 1, Len(s) - 1)) \o <<s[Len(s)]>>

ALLOWED_EXTENSIONS ==
  { <<"m","p","4">>, <<"a","v","i">>, <<"m","o","v">>,
    <<"w","m","v">>, <<"f","l","v">>, <<"w","e","b","m">> }

\* faulty variant: the suffix test without the "'.' in filename" conjunct
\* (filename.lower().endswith(ext))
allowed_file_endswith(filename) ==
  \E ext \in ALLOWED_EXTENSIONS :
    /\ Len(filename) >= Len(ext)
    /\ str_lower(SubSeq(filename, Len(filename) - Len(ext) + 1, Len(filename))) = ext

allowed_file(filename) ==
  /\ "." \in Range(filename)
  /\ str_lower(rsplit_ext(filename)) \in ALLOWED_EXTENSIONS

(* werkzeug.utils.secure_filename on a POSIX host (os.sep = "/", no altsep) *)
\* characters kept by _filename_ascii_strip_re = [^A-Za-z0-9_.-]
SafeChars == Range(Upper) \cup Range(Lower) \cup Range(Digits) \cup {"_", ".", "-"}

\* filename.replace(os.sep, " ")
replace_sep(s) == [i \in DOMAIN s |-> IF s[i] = "/" THEN " " ELSE s[i]]

\* "_".join(s.split()): whitespace runs become one "_", none at the ends
RECURSIVE split_words(_, _)
split_words(s, cur) ==
  IF s = <<>> THEN (IF cur = <<>> THEN <<>> ELSE <<cur>>)
  ELSE IF s[1] = " "
    THEN (IF cur = <<>> THEN <<>> ELSE <<cur>>) \o split_words(Tail(s), <<>>)
    ELSE split_words(Tail(s), cur \o <<s[1]>>)

RECURSIVE join_words(_)
join_words(ws) ==
  IF ws = <<>> THEN <<>>
  ELSE IF Len(ws) = 1 THEN ws[1]
  ELSE ws[1] \o <<"_">> \o join_words(Tail(ws))

\* re.sub of every character outside SafeChars
strip_unsafe(s) == SelectSeq(s, LAMBDA ch : ch \in SafeChars)

\* str.strip("._")
RECURSIVE lstrip_dots(_)
lstrip_dots(s) ==
  IF s # <<>> /\ s[1] \in {".", "_"} THEN lstrip_dots(Tail(s)) ELSE s

RECURSIVE rstrip_dots(_)
rstrip_dots(s) ==
  IF s # <<>> /\ s[Len(s)] \in {".", "_"}
    THEN rstrip_dots(SubSeq(s, 1, Len(s) - 1)) ELSE s

secure_filename(s) ==
  rstrip_dots(lstrip_dots(strip_unsafe(join_words(split_words(replace_sep(s), <<>>)))))

\* datetime.now().strftime('%Y%m%d_%H%M%S'): one token per second of the
\* clock, of fixed width
strftime(t) == <<"T", Digits[t + 1]>>

\* f"{stamp}_{secure_filename(file.filename)}"
storage_name(t, original) == strftime(t) \o <<"_">> \o secure_filename(original)

(* ------------------------------- state -------------------------------- *)
VARIABLES
  session,   \* per client: the admin_logged_in key of the Flask session
  videos,    \* rows of table videos
  seq,       \* sqlite_sequence of videos: the largest id ever assigned
  files,     \* names present in UPLOAD_FOLDER
  now,       \* wall clock, in seconds
  last,      \* the request handled last: its inputs and its response
  pc,        \* per client: position of its in-flight request (step model)
  loc        \* per client: locals of its in-flight request (step model)

vars == <<session, videos, seq, files, now, last, pc, loc>>

\* generate_password_hash / check_password_hash: a hash verifies exactly
\* the password it was made from
generate_password_hash(p) == <<"pbkdf2", p>>
check_password_hash(h, p) == h = generate_password_hash(p)

\* table admin_users after init_db
admin_users ==
  { [username |-> "admin", password_hash |-> generate_password_hash("admin123")] }

\* the request being answered: the inputs the handler read and the response
\* it returns; NoRequest between requests
NoRequest ==
  [ op |-> "none", sess |-> "none", hasFile |-> FALSE, name |-> <<>>,
    title |-> "", video_id |-> 0, fault |-> "none",
    resp |-> "none", flash |-> "none", listing |-> <<>>, listing2 |-> <<>> ]

NoLocals == [ video_id |-> 0, filename |-> <<>>, title |-> "", featured |-> 0 ]

Init ==
  /\ session = [s \in Sessions |-> FALSE]
  /\ videos = {}
  /\ seq = 0
  /\ files = {}
  /\ now = 0
  /\ last = NoRequest
  /\ pc = [s \in Sessions |-> "idle"]
  /\ loc = [s \in Sessions |-> NoLocals]

(* --------------------------- session gate ----------------------------- *)
\* faulty variant: the gate left out
session_get_open(s) == TRUE

\* session.get('admin_logged_in')
session_get(s) == session[s]

(* ------------------------- table and folder --------------------------- *)
Ids(rows) == {v.id : v \in rows}

\* video['filename'] of the row with that id
FilenameOf(rows, video_id) == (CHOOSE v \in rows : v.id = video_id).filename

\* SELECT * FROM videos WHERE id = ?  (the set of matching rows)
select_by_id(rows, video_id) == {v \in rows : v.id = video_id}

\* 'featured' in request.form, bound to a BOOLEAN column
bool_to_int(b) == IF b THEN 1 ELSE 0

\* INSERT INTO videos (title, description, filename, featured): id from
\* AUTOINCREMENT, upload_date from CURRENT_TIMESTAMP
insert_video(rows, lastid, title, description, filename, featured, t) ==
  rows \cup { [ id |-> lastid + 1, title |-> title, description |-> description,
                filename |-> filename, upload_date |-> t, featured |-> featured ] }

\* DELETE FROM videos WHERE id = ?
delete_from_videos(rows, video_id) == {v \in rows : v.id # video_id}

\* faulty variant: the flag written back unchanged
new_featured_same(video) == video.featured

\* not video['featured'], bound to a BOOLEAN column
new_featured(video) == IF video.featured = 0 THEN 1 ELSE 0

\* UPDATE videos SET featured = ? WHERE id = ?
update_featured(rows, value, video_id) ==
  { IF v.id = video_id THEN [v EXCEPT !.featured = value] ELSE v : v \in rows }

\* file.save(path): the name exists afterwards (an existing file of that
\* name is overwritten)
file_save(fs, name) == fs \cup {name}

\* os.path.exists(path)
os_path_exists(fs, name) == name \in fs

\* faulty variant: the file left in place
os_remove_skip(fs, name) == fs

\* os.remove(path)
os_remove(fs, name) == fs \ {name}

(* ------------------------------ listings ------------------------------ *)
\* every arrangement of the ids of rows
Arrangements(rows) ==
  { f \in [1..Cardinality(rows) -> Ids(rows)] :
      \A i, j \in 1..Cardinality(rows) : i # j => f[i] # f[j] }

DateOf(rows, video_id) == (CHOOSE v \in rows : v.id = video_id).upload_date

\* SELECT ... ORDER BY upload_date DESC: the sort key is upload_date alone,
\* so rows of equal upload_date come in whichever order the engine yields
order_by_upload_date_desc(rows) ==
  { f \in Arrangements(rows) :
      \A i, j \in DOMAIN f : i < j => DateOf(rows, f[i]) >= DateOf(rows, f[j]) }

\* LIMIT n
limit(f, n) == SubSeq(f, 1, IF Len(f) < n THEN Len(f) ELSE n)

HomeFeaturedLimit == 3
HomeRecentLimit == 6

where_featured(rows, value) == {v \in rows : v.featured = value}

(* ------------------- handlers, one request per step ------------------- *)
\* Spec takes the requests one at a time: a handler runs from an idle
\* server (Idle, see Next) to its response, then Respond returns the response
\* to the client.  SpecSteps, further down, interleaves the file and table
\* steps of uploads and deletes of different clients.
Request(op, s) == [NoRequest EXCEPT !.op = op, !.sess = s]

Answer(req, resp, flash) == [req EXCEPT !.resp = resp, !.flash = flash]

\* POST /admin/login
admin_login(s, username, password) ==
  LET user == {u \in admin_users : u.username = username}
      ok == \E u \in user : check_password_hash(u.password_hash, password)
      req == Request("login", s)
  IN /\ session' = IF ok THEN [session EXCEPT ![s] = TRUE] ELSE session
     /\ last' = IF ok THEN Answer(req, "dashboard", "Successfully logged in!")
                      ELSE Answer(req, "page", "Invalid credentials!")
     /\ UNCHANGED <<videos, seq, files, now, pc, loc>>

\* GET /admin/logout
admin_logout(s) ==
  /\ session' = [session EXCEPT ![s] = FALSE]
  /\ last' = Answer(Request("logout", s), "home", "Successfully logged out!")
  /\ UNCHANGED <<videos, seq, files, now, pc, loc>>

\* GET /
home(s) ==
  \E featured_videos \in order_by_upload_date_desc(where_featured(videos, 1)),
     recent_videos \in order_by_upload_date_desc(videos) :
    /\ last' = [Answer(Request("home", s), "page", "none") EXCEPT
                  !.listing = limit(featured_videos, HomeFeaturedLimit),
                  !.listing2 = limit(recent_videos, HomeRecentLimit)]
    /\ UNCHANGED <<session, videos, seq, files, now, pc, loc>>

\* GET /highlights
highlights(s) ==
  \E featured_videos \in order_by_upload_date_desc(where_featured(videos, 1)),
     other_videos \in order_by_upload_date_desc(where_featured(videos, 0)) :
    /\ last' = [Answer(Request("highlights", s), "page", "none") EXCEPT
                  !.listing = featured_videos,
                  !.listing2 = other_videos]
    /\ UNCHANGED <<session, videos, seq, files, now, pc, loc>>

\* GET /admin
admin_dashboard(s) ==
  /\ IF ~session_get(s)
       THEN last' = Answer(Request("dashboard", s), "login", "none")
       ELSE \E all_videos \in order_by_upload_date_desc(videos) :
              last' = [Answer(Request("dashboard", s), "page", "none") EXCEPT
                         !.listing = all_videos]
  /\ UNCHANGED <<session, videos, seq, files, now, pc, loc>>

UploadFaults == {"none", "save_open", "save_write", "insert"}

\* POST /admin/upload.  hasFile: 'video' in request.files.  fault:
\* "save_open" = file.save raises before the file is created, "save_write" =
\* it raises after creating it, "insert" = the INSERT or its commit raises;
\* a fault is drawn only on the path that reaches the failing call, and a
\* request without a file part carries no file name.
upload_video(s, hasFile, name, title, description, featured, fault) ==
  LET filename == storage_name(now, name)
      req == [Request("upload", s) EXCEPT !.hasFile = hasFile, !.name = name,
                                          !.title = title, !.fault = fault]
  IN
  /\ ~hasFile => name = <<>>
  /\ IF ~session_get(s) THEN
       /\ fault = "none"
       /\ last' = Answer(req, "login", "none")
       /\ UNCHANGED <<videos, seq, files>>
     ELSE IF ~hasFile \/ name = <<>> THEN
       /\ fault = "none"
       /\ last' = Answer(req, "dashboard", "No file selected!")
       /\ UNCHANGED <<videos, seq, files>>
     ELSE IF ~allowed_file(name) THEN
       /\ fault = "none"
       /\ last' = Answer(req, "dashboard",
                         "Invalid file type! Please upload a video file.")
       /\ UNCHANGED <<videos, seq, files>>
     ELSE IF fault = "save_open" THEN
       /\ last' = Answer(req, "error500", "none")
       /\ UNCHANGED <<videos, seq, files>>
     ELSE IF fault = "save_write" THEN
       /\ files' = file_save(files, filename)
       /\ last' = Answer(req, "error500", "none")
       /\ UNCHANGED <<videos, seq>>
     ELSE IF fault = "insert" THEN
       /\ files' = file_save(files, filename)
       /\ last' = Answer(req, "error500", "none")
       /\ UNCHANGED <<videos, seq>>
     ELSE
       /\ seq < MaxVideos
       /\ files' = file_save(files, filename)
       /\ videos' = insert_video(videos, seq, title, description, filename,
                                 bool_to_int(featured), now)
       /\ seq' = seq + 1
       /\ last' = [Answer(req, "dashboard", "Video uploaded successfully!")
                     EXCEPT !.video_id = seq + 1]
  /\ UNCHANGED <<session, now, pc, loc>>

DeleteFaults == {"none", "remove"}

\* GET /admin/delete/<video_id>.  fault "remove" = os.remove raises; it is
\* drawn only when os.remove is called.
delete_video(s, video_id, fault) ==
  LET video == select_by_id(videos, video_id)
      req == [Request("delete", s) EXCEPT !.video_id = video_id, !.fault = fault]
  IN
  /\ IF ~session_get(s) THEN
       /\ fault = "none"
       /\ last' = Answer(req, "login", "none")
       /\ UNCHANGED <<videos, files>>
     ELSE IF video = {} THEN
       /\ fault = "none"
       /\ last' = Answer(req, "dashboard", "none")
       /\ UNCHANGED <<videos, files>>
     ELSE
       LET file_path == (CHOOSE v \in video : TRUE).filename IN
       IF os_path_exists(files, file_path) THEN
         IF fault = "remove" THEN
           /\ last' = Answer(req, "error500", "none")
           /\ UNCHANGED <<videos, files>>
         ELSE
           /\ files' = os_remove(files, file_path)
           /\ videos' = delete_from_videos(videos, video_id)
           /\ last' = Answer(req, "dashboard", "Video deleted successfully!")
       ELSE
         /\ fault = "none"
         /\ UNCHANGED files
         /\ videos' = delete_from_videos(videos, video_id)
         /\ last' = Answer(req, "dashboard", "Video deleted successfully!")
  /\ UNCHANGED <<session, seq, now, pc, loc>>

\* GET /admin/toggle_featured/<video_id>
toggle_featured(s, video_id) ==
  LET video == select_by_id(videos, video_id)
      req == [Request("toggle", s) EXCEPT !.video_id = video_id]
  IN
  /\ IF ~session_get(s) THEN
       /\ last' = Answer(req, "login", "none")
       /\ UNCHANGED videos
     ELSE IF video = {} THEN
       /\ last' = Answer(req, "dashboard", "none")
       /\ UNCHANGED videos
     ELSE
       /\ videos' = update_featured(videos,
                      new_featured(CHOOSE v \in video : TRUE), video_id)
       /\ last' = Answer(req, "dashboard", "Video featured status updated!")
  /\ UNCHANGED <<session, seq, files, now, pc, loc>>

\* the server is idle: no request is being answered
Idle == last = NoRequest

\* the response is returned to the client
Respond ==
  /\ ~Idle
  /\ last' = NoRequest
  /\ UNCHANGED <<session, videos, seq, files, now, pc, loc>>

\* one second passes
Tick ==
  /\ Idle
  /\ now < MaxClock
  /\ now' = now + 1
  /\ UNCHANGED <<session, videos, seq, files, last, pc, loc>>

Next ==
  \/ Idle /\ \E s \in Sessions, u \in Usernames, p \in Passwords :
               admin_login(s, u, p)
  \/ Idle /\ \E s \in Sessions : admin_logout(s)
  \/ Idle /\ \E s \in Sessions : home(s)
  \/ Idle /\ \E s \in Sessions : highlights(s)
  \/ Idle /\ \E s \in Sessions : admin_dashboard(s)
  \/ Idle /\ \E s \in Sessions, hasFile \in BOOLEAN, name \in FileNames,
                title \in Titles, description \in Descriptions,
                featured \in BOOLEAN, fault \in UploadFaults :
               upload_video(s, hasFile, name, title, description, featured, fault)
  \/ Idle /\ \E s \in Sessions, video_id \in VideoIds, fault \in DeleteFaults :
               delete_video(s, video_id, fault)
  \/ Idle /\ \E s \in Sessions, video_id \in VideoIds : toggle_featured(s, video_id)
  \/ Respond
  \/ Tick

Spec == Init /\ [][Next]_vars

(* ------------- upload and delete, one file or table step at a time ---- *)
\* Requests of different clients run on separate worker threads; pc[s] is
\* the place client s's request has reached and loc[s] holds its locals.
\* Only the paths that reach the folder or the table are stepped: a request
\* refused by the gate or by validation changes nothing.
Uploading == {s \in Sessions : pc[s] = "upload_saved"}

\* upload_video up to and including file.save: gate, validation, name, save
upload_save(s, name, title, featured) ==
  /\ pc[s] = "idle"
  /\ session_get(s)
  /\ name # <<>>
  /\ allowed_file(name)
  /\ seq + Cardinality(Uploading) < MaxVideos
  /\ files' = file_save(files, storage_name(now, name))
  /\ loc' = [loc EXCEPT ![s] = [NoLocals EXCEPT
                                  !.filename = storage_name(now, name),
                                  !.title = title,
                                  !.featured = bool_to_int(featured)]]
  /\ pc' = [pc EXCEPT ![s] = "upload_saved"]
  /\ UNCHANGED <<session, videos, seq, now, last>>

\* upload_video from the INSERT to its commit
upload_insert(s) ==
  /\ pc[s] = "upload_saved"
  /\ videos' = insert_video(videos, seq, loc[s].title, "", loc[s].filename,
                            loc[s].featured, now)
  /\ seq' = seq + 1
  /\ pc' = [pc EXCEPT ![s] = "idle"]
  /\ loc' = [loc EXCEPT ![s] = NoLocals]
  /\ UNCHANGED <<session, files, now, last>>

\* delete_video up to the SELECT that finds the row
delete_select(s, video_id) ==
  /\ pc[s] = "idle"
  /\ session_get(s)
  /\ select_by_id(videos, video_id) # {}
  /\ loc' = [loc EXCEPT ![s] = [NoLocals EXCEPT
                                  !.video_id = video_id,
                                  !.filename = FilenameOf(videos, video_id)]]
  /\ pc' = [pc EXCEPT ![s] = "delete_selected"]
  /\ UNCHANGED <<session, videos, seq, files, now, last>>

\* if os.path.exists(file_path)
delete_exists(s) ==
  /\ pc[s] = "delete_selected"
  /\ pc' = [pc EXCEPT ![s] = IF os_path_exists(files, loc[s].filename)
                               THEN "delete_remove" ELSE "delete_row"]
  /\ UNCHANGED <<session, videos, seq, files, now, last, loc>>

\* os.remove(file_path): FileNotFoundError ends the request when another
\* request removed the file since the check
delete_remove(s) ==
  /\ pc[s] = "delete_remove"
  /\ IF os_path_exists(files, loc[s].filename)
       THEN /\ files' = os_remove(files, loc[s].filename)
            /\ pc' = [pc EXCEPT ![s] = "delete_row"]
            /\ UNCHANGED loc
       ELSE /\ pc' = [pc EXCEPT ![s] = "idle"]
            /\ loc' = [loc EXCEPT ![s] = NoLocals]
            /\ UNCHANGED files
  /\ UNCHANGED <<session, videos, seq, now, last>>

\* DELETE FROM videos and its commit
delete_row(s) ==
  /\ pc[s] = "delete_row"
  /\ videos' = delete_from_videos(videos, loc[s].video_id)
  /\ pc' = [pc EXCEPT ![s] = "idle"]
  /\ loc' = [loc EXCEPT ![s] = NoLocals]
  /\ UNCHANGED <<session, seq, files, now, last>>

NextSteps ==
  \/ Idle /\ \E s \in Sessions, u \in Usernames, p \in Passwords :
               admin_login(s, u, p)
  \/ Idle /\ \E s \in Sessions : admin_logout(s)
  \/ Respond
  \/ Tick
  \/ \E s \in Sessions, name \in FileNames, title \in Titles, featured \in BOOLEAN :
       upload_save(s, name, title, featured)
  \/ \E s \in Sessions : upload_insert(s)
  \/ \E s \in Sessions, video_id \in VideoIds : delete_select(s, video_id)
  \/ \E s \in Sessions : delete_exists(s)
  \/ \E s \in Sessions : delete_remove(s)
  \/ \E s \in Sessions : delete_row(s)

SpecSteps == Init /\ [][NextSteps]_vars

(* ------------------------------- claims ------------------------------- *)
\* a step in which a handler of kind op answers a request
Handled(op) == Idle /\ last'.op = op

\* C1: a dashboard, upload, delete or toggle request of a session whose
\* admin_logged_in flag is not set is answered by the redirect to the login
\* page and leaves the rows of videos and the files of the folder as they were
C1_GateBlocksUnauthenticated ==
  [][ \A op \in {"dashboard", "upload", "delete", "toggle"} :
        (Handled(op) /\ ~session[last'.sess]) =>
          (last'.resp = "login" /\ videos' = videos /\ files' = files) ]_vars

\* C1 witness: after rows exist and the session is logged out again, a delete
\* of an existing id was answered by the redirect to login
C1_Witness ==
  /\ last.op = "delete"
  /\ last.resp = "login"
  /\ last.video_id \in Ids(videos)
  /\ ~session[last.sess]

\* C2 (as claimed): once an upload by a logged-in session is answered, the
\* stored file of that upload and a row naming it exist both or neither
C2_UploadFileAndRowTogether ==
  [][ (Handled("upload") /\ session[last'.sess]) =>
        ( storage_name(now, last'.name) \in files'
            <=> \E v \in videos' : v.filename = storage_name(now, last'.name) )
    ]_vars

\* C3 (as claimed): a delete by a logged-in session of an id that has a row
\* removes that row, whether or not the removal of the file failed
C3_DeleteRowDespiteRemoveFailure ==
  [][ ( /\ Handled("delete")
        /\ session[last'.sess]
        /\ last'.video_id \in Ids(videos) )
      => last'.video_id \notin Ids(videos') ]_vars

\* C4 (as claimed): an upload by a logged-in session whose title is empty
\* adds no row, whatever the file name
C4_EmptyTitleNoRow ==
  [][ (Handled("upload") /\ session[last'.sess] /\ last'.title = "")
      => videos' = videos ]_vars

\* the allow-list as the specification words it
ClaimedExtensions ==
  { <<"m","p","4">>, <<"a","v","i">>, <<"m","o","v">>,
    <<"w","m","v">>, <<"f","l","v">>, <<"w","e","b","m">> }

\* non-empty, contains a '.', and the lowercased text after its last '.' is
\* on the allow-list
ClaimedAcceptable(hasFile, name) ==
  /\ hasFile
  /\ name # <<>>
  /\ \E i \in DOMAIN name :
       /\ name[i] = "."
       /\ \A j \in DOMAIN name : j > i => name[j] # "."
       /\ str_lower(SubSeq(name, i + 1, Len(name))) \in ClaimedExtensions

\* C5: an upload by a logged-in session whose file name is missing, empty,
\* without a '.', or with a last extension outside the allow-list leaves the
\* rows and the files as they were (so rows and files are created only for
\* acceptable names)
C5_OnlyAllowedNamesStored ==
  [][ ( /\ Handled("upload")
        /\ session[last'.sess]
        /\ ~ClaimedAcceptable(last'.hasFile, last'.name) )
      => (videos' = videos /\ files' = files) ]_vars

\* C5 witness: with a row already stored, an upload of a name that ends in
\* an allowed extension after no '.' was refused for its file type
C5_Witness ==
  /\ last.op = "upload"
  /\ last.name = <<"m", "p", "4">>
  /\ last.flash = "Invalid file type! Please upload a video file."
  /\ videos # {}

\* C6: a delete by a logged-in session of an id that has a row, whose file
\* removal does not fail, removes exactly that row and exactly its file; a
\* delete of an id that has no row (so any repeated delete) is answered
\* without error and changes no row and no file
C6_DeleteRemovesBothThenNoOp ==
  [][ (Handled("delete") /\ session[last'.sess]) =>
        IF last'.video_id \in Ids(videos)
          THEN last'.fault = "none" =>
                 /\ videos' = {v \in videos : v.id # last'.video_id}
                 /\ files' = files \ {FilenameOf(videos, last'.video_id)}
                 /\ last'.resp = "dashboard"
          ELSE /\ last'.resp = "dashboard"
               /\ videos' = videos
               /\ files' = files ]_vars

\* C6 witness: the delete found no row for an id that was assigned before
\* (a repeated delete), while another row and its file are still there
C6_Witness ==
  /\ last.op = "delete"
  /\ last.resp = "dashboard"
  /\ last.flash = "none"
  /\ last.video_id <= seq
  /\ videos # {}
  /\ \A v \in videos : v.filename \in files

\* C7 (as claimed): no two rows of videos have the same filename
C7_FilenamesUnique ==
  \A v, w \in videos : v.filename = w.filename => v.id = w.id

\* C8 (as claimed): in every state, also between the file and table steps of
\* interleaved uploads and deletes, every row's filename names a file that
\* is present in the folder
C8_RowFileExists ==
  \A v \in videos : v.filename \in files

\* the order the specification asks of a listing: upload_date descending,
\* equal dates by descending id
OrderedAsClaimed(listing) ==
  \A i, j \in DOMAIN listing :
    i < j =>
      \/ DateOf(videos, listing[i]) > DateOf(videos, listing[j])
      \/ /\ DateOf(videos, listing[i]) = DateOf(videos, listing[j])
         /\ listing[i] > listing[j]

\* C9 (as claimed): every listing a view returns is in upload_date
\* descending order with equal dates in descending id order
C9_ListingsTieBreakById ==
  last.op \in {"home", "highlights", "dashboard"} =>
    (OrderedAsClaimed(last.listing) /\ OrderedAsClaimed(last.listing2))

\* C10: a toggle by a logged-in session of an id that has a row replaces
\* that row by the same row with featured negated and keeps every other row
\* and every file; a toggle of an id that has no row changes nothing
C10_ToggleFlipsOnlyThatFlag ==
  [][ (Handled("toggle") /\ session[last'.sess]) =>
        /\ files' = files
        /\ IF last'.video_id \in Ids(videos)
             THEN videos' =
                    { IF v.id = last'.video_id
                        THEN [v EXCEPT !.featured = 1 - v.featured]
                        ELSE v : v \in videos }
             ELSE videos' = videos ]_vars

\* C10 witness: a toggle took effect while two rows were stored
C10_Witness ==
  /\ last.op = "toggle"
  /\ last.flash = "Video featured status updated!"
  /\ Cardinality(videos) >= 2

====
